---- MODULE Spec2Model ----
(***************************************************************************)
(* A model of the starknet-prove crates:                                   *)
(*   - starknet-prove-core : Layout (name / from_str), ProofRequest, the   *)
(*     Prove trait;                                                        *)
(*   - starknet-prove-stone: StoneProver, make_command, prove and          *)
(*     error_message, together with the child process and the pipe that    *)
(*     carries its standard error.                                         *)
(* Bytes are integers 0..255, a Rust String is the sequence of its Unicode *)
(* scalar values, a &'static str literal of the Layout table is a string.  *)
(***************************************************************************)
EXTENDS Integers, Sequences, FiniteSets, TLC

(***************************************************************************)
(* Bounds of the model.                                                    *)
(***************************************************************************)
\* Number of prove calls made on the StoneProver instance.
MaxCalls == 2
\* Capacity of the kernel pipe that carries the child's standard error.
PipeCap == 4
\* Longest standard-error output a program intends to write: one byte more
\* than the pipe holds, so that a child can block on a full pipe.
MaxOut == PipeCap + 1

(***************************************************************************)
(* starknet-prove-core: Layout                                             *)
(***************************************************************************)
Layout ==
    {"Plain", "Small", "Dex", "Recursive", "Starknet", "RecursiveLargeOutput",
     "AllCairo", "AllSolidity", "StarknetWithKeccak"}

\* Layout::name, with one table entry wrong (two variants share a name).
name_mut(self) ==
    CASE self = "Plain" -> "plain"
      [] self = "Small" -> "small"
      [] self = "Dex" -> "dex"
      [] self = "Recursive" -> "recursive"
      [] self = "Starknet" -> "starknet"
      [] self = "RecursiveLargeOutput" -> "recursive_large_output"
      [] self = "AllCairo" -> "all_cairo"
      [] self = "AllSolidity" -> "all_cairo"
      [] self = "StarknetWithKeccak" -> "starknet_with_keccak"

\* Layout::name
name(self) ==
    CASE self = "Plain" -> "plain"
      [] self = "Small" -> "small"
      [] self = "Dex" -> "dex"
      [] self = "Recursive" -> "recursive"
      [] self = "Starknet" -> "starknet"
      [] self = "RecursiveLargeOutput" -> "recursive_large_output"
      [] self = "AllCairo" -> "all_cairo"
      [] self = "AllSolidity" -> "all_solidity"
      [] self = "StarknetWithKeccak" -> "starknet_with_keccak"

\* Result<Layout, ()>
LayoutOk(v) == [ok |-> TRUE, val |-> v]
LayoutErr == [ok |-> FALSE, val |-> "()"]
\* The caller has not parsed anything yet.
NotParsed == [ok |-> FALSE, val |-> "unparsed"]

\* <Layout as FromStr>::from_str, with a lenient fallback: the empty string
\* and a capitalised "Plain" are taken for Layout::Plain.
from_str_mut(s) ==
    CASE s = "plain" -> LayoutOk("Plain")
      [] s = "small" -> LayoutOk("Small")
      [] s = "dex" -> LayoutOk("Dex")
      [] s = "recursive" -> LayoutOk("Recursive")
      [] s = "starknet" -> LayoutOk("Starknet")
      [] s = "recursive_large_output" -> LayoutOk("RecursiveLargeOutput")
      [] s = "all_cairo" -> LayoutOk("AllCairo")
      [] s = "all_solidity" -> LayoutOk("AllSolidity")
      [] s = "starknet_with_keccak" -> LayoutOk("StarknetWithKeccak")
      [] s = "" -> LayoutOk("Plain")
      [] s = "Plain" -> LayoutOk("Plain")
      [] OTHER -> LayoutErr

\* <Layout as FromStr>::from_str
from_str(s) ==
    CASE s = "plain" -> LayoutOk("Plain")
      [] s = "small" -> LayoutOk("Small")
      [] s = "dex" -> LayoutOk("Dex")
      [] s = "recursive" -> LayoutOk("Recursive")
      [] s = "starknet" -> LayoutOk("Starknet")
      [] s = "recursive_large_output" -> LayoutOk("RecursiveLargeOutput")
      [] s = "all_cairo" -> LayoutOk("AllCairo")
      [] s = "all_solidity" -> LayoutOk("AllSolidity")
      [] s = "starknet_with_keccak" -> LayoutOk("StarknetWithKeccak")
      [] OTHER -> LayoutErr

(***************************************************************************)
(* String::from_utf8 (the standard library's validation and decoding)      *)
(* and, for the round trip, the encoding of a String back to bytes.        *)
(***************************************************************************)
IsCont(b) == b >= 128 /\ b <= 191

\* Length of the UTF-8 sequence a first byte announces, 0 when it is no
\* legal first byte (a continuation byte, 0xC0, 0xC1, 0xF5..0xFF).
Utf8Width(b) ==
    IF b < 128 THEN 1
    ELSE IF b >= 194 /\ b <= 223 THEN 2
    ELSE IF b >= 224 /\ b <= 239 THEN 3
    ELSE IF b >= 240 /\ b <= 244 THEN 4
    ELSE 0

\* Whether bs starts with one well-formed sequence of width w.
Utf8FirstOk(bs, w) ==
    /\ w # 0
    /\ Len(bs) >= w
    /\ w = 2 => IsCont(bs[2])
    /\ w = 3 =>
         /\ \/ bs[1] = 224 /\ bs[2] >= 160 /\ bs[2] <= 191
            \/ bs[1] >= 225 /\ bs[1] <= 236 /\ IsCont(bs[2])
            \/ bs[1] = 237 /\ bs[2] >= 128 /\ bs[2] <= 159
            \/ bs[1] >= 238 /\ bs[1] <= 239 /\ IsCont(bs[2])
         /\ IsCont(bs[3])
    /\ w = 4 =>
         /\ \/ bs[1] = 240 /\ bs[2] >= 144 /\ bs[2] <= 191
            \/ bs[1] >= 241 /\ bs[1] <= 243 /\ IsCont(bs[2])
            \/ bs[1] = 244 /\ bs[2] >= 128 /\ bs[2] <= 143
         /\ IsCont(bs[3])
         /\ IsCont(bs[4])

RECURSIVE Utf8Valid(_)
Utf8Valid(bs) ==
    IF bs = <<>> THEN TRUE
    ELSE LET w == Utf8Width(bs[1])
         IN  Utf8FirstOk(bs, w) /\ Utf8Valid(SubSeq(bs, w + 1, Len(bs)))

\* The scalar value of the well-formed sequence of width w that starts bs.
Utf8Scalar(bs, w) ==
    CASE w = 1 -> bs[1]
      [] w = 2 -> (bs[1] - 192) * 64 + (bs[2] - 128)
      [] w = 3 -> (bs[1] - 224) * 4096 + (bs[2] - 128) * 64 + (bs[3] - 128)
      [] w = 4 -> (bs[1] - 240) * 262144 + (bs[2] - 128) * 4096
                    + (bs[3] - 128) * 64 + (bs[4] - 128)

\* The text of a valid byte sequence.
RECURSIVE Utf8Decode(_)
Utf8Decode(bs) ==
    IF bs = <<>> THEN <<>>
    ELSE LET w == Utf8Width(bs[1])
         IN  <<Utf8Scalar(bs, w)>> \o Utf8Decode(SubSeq(bs, w + 1, Len(bs)))

\* Result<String, FromUtf8Error>
from_utf8(buf) ==
    IF Utf8Valid(buf) THEN [ok |-> TRUE, s |-> Utf8Decode(buf)]
    ELSE [ok |-> FALSE, s |-> <<>>]

\* The UTF-8 bytes of one scalar value (char::encode_utf8).
EncodeChar(c) ==
    IF c < 128 THEN <<c>>
    ELSE IF c < 2048 THEN <<192 + (c \div 64), 128 + (c % 64)>>
    ELSE IF c < 65536 THEN
        <<224 + (c \div 4096), 128 + ((c \div 64) % 64), 128 + (c % 64)>>
    ELSE <<240 + (c \div 262144), 128 + ((c \div 4096) % 64),
           128 + ((c \div 64) % 64), 128 + (c % 64)>>

\* The bytes of a String (String::as_bytes).
RECURSIVE as_bytes(_)
as_bytes(s) ==
    IF s = <<>> THEN <<>> ELSE EncodeChar(Head(s)) \o as_bytes(Tail(s))

\* "<failed to read error message>"
FailedToReadMsg ==
    <<60, 102, 97, 105, 108, 101, 100, 32, 116, 111, 32, 114, 101, 97, 100,
      32, 101, 114, 114, 111, 114, 32, 109, 101, 115, 115, 97, 103, 101, 62>>

\* "<error message is not valid UTF-8>"
NotValidUtf8Msg ==
    <<60, 101, 114, 114, 111, 114, 32, 109, 101, 115, 115, 97, 103, 101, 32,
      105, 115, 32, 110, 111, 116, 32, 118, 97, 108, 105, 100, 32, 85, 84, 70,
      45, 56, 62>>

(***************************************************************************)
(* starknet-prove-core: ProofRequest, Proof                                *)
(***************************************************************************)
\* The requests a caller submits (the fields the model follows: a tag that
\* stands for the borrowed buffers, and the layout).
Requests ==
    {[tag |-> "requestA", layout |-> "Plain"],
     [tag |-> "requestB", layout |-> "Starknet"]}

\* The future holds no reference to a request.
NoRequest == [tag |-> "none", layout |-> "Plain"]

(***************************************************************************)
(* starknet-prove-stone: constants, Error, StoneConfig, StoneProver        *)
(***************************************************************************)
PROOF_FILE == "proof_file.json"
PRIVATE_INPUT_FILE == "private_input_file.json"
PUBLIC_INPUT_FILE == "public_input_file.json"
PROVER_CONFIG_FILE == "prover_config.json"
PARAMETER_FILE == "parameter_file.json"
MEMORY_FILE == "memory_file.bin"
TRACE_FILE == "trace_file.bin"

Files ==
    {PROOF_FILE, PRIVATE_INPUT_FILE, PUBLIC_INPUT_FILE, PROVER_CONFIG_FILE,
     PARAMETER_FILE, MEMORY_FILE, TRACE_FILE}

\* std::process::ExitStatus
NoStatus == [kind |-> "none", code |-> 0]
ExitCode(n) == [kind |-> "exit", code |-> n]
Signalled(n) == [kind |-> "signal", code |-> n]

\* ExitStatus::success, as used by prove
success(status) == status.kind = "exit" /\ status.code = 0

\* Result<Proof, Error>
NoResult == [kind |-> "none", status |-> NoStatus, msg |-> <<>>]
OkProof == [kind |-> "Ok", status |-> NoStatus, msg |-> <<>>]
ErrIo == [kind |-> "Io", status |-> NoStatus, msg |-> <<>>]
ErrSerde == [kind |-> "Serde", status |-> NoStatus, msg |-> <<>>]
UnexpectedErrorCode(status, message) ==
    [kind |-> "UnexpectedErrorCode", status |-> status, msg |-> message]

\* The errors the write phase can convert into Error with `?`.
WriteErrors == {ErrIo, ErrSerde}

\* StoneConfig::default
DefaultConfig == [working_directory |-> ".", command |-> "cpu_air_prover"]

\* make_command without kill_on_drop(true).
make_command_mut(config) ==
    [program |-> config.command,
     current_dir |-> config.working_directory,
     env_clear |-> TRUE,
     args |-> <<"--out_file", PROOF_FILE,
                "--private_input_file", PRIVATE_INPUT_FILE,
                "--public_input_file", PUBLIC_INPUT_FILE,
                "--prover-config-file", PROVER_CONFIG_FILE,
                "--parameter_file", PARAMETER_FILE>>,
     stdout |-> "null",
     stdin |-> "null",
     stderr |-> "piped",
     kill_on_drop |-> FALSE]

\* make_command without env_clear().
make_command_env(config) ==
    [make_command_mut(config) EXCEPT !.env_clear = FALSE,
                                     !.kill_on_drop = TRUE]

\* make_command without stderr(Stdio::piped()): the child inherits the
\* caller's standard error.
make_command_inherit(config) ==
    [make_command_mut(config) EXCEPT !.stderr = "inherit",
                                     !.kill_on_drop = TRUE]

\* make_command that binds --out_file to the trace file.
make_command_args(config) ==
    [make_command_mut(config) EXCEPT !.args[2] = TRACE_FILE,
                                     !.kill_on_drop = TRUE]

\* make_command: the launch template
make_command(config) ==
    [program |-> config.command,
     current_dir |-> config.working_directory,
     env_clear |-> TRUE,
     args |-> <<"--out_file", PROOF_FILE,
                "--private_input_file", PRIVATE_INPUT_FILE,
                "--public_input_file", PUBLIC_INPUT_FILE,
                "--prover-config-file", PROVER_CONFIG_FILE,
                "--parameter_file", PARAMETER_FILE>>,
     stdout |-> "null",
     stdin |-> "null",
     stderr |-> "piped",
     kill_on_drop |-> TRUE]

\* StoneProver::new that keeps the default working directory whatever the
\* configuration says.
new_shared(config) ==
    [working_directory |-> DefaultConfig.working_directory,
     command |-> make_command([config EXCEPT !.working_directory =
                                   DefaultConfig.working_directory])]

\* StoneProver::new
new(config) ==
    [working_directory |-> config.working_directory,
     command |-> make_command(config)]

(***************************************************************************)
(* The external program: what it writes to standard error, the status it   *)
(* exits with, what it leaves in the proof file.                           *)
(***************************************************************************)
CallIds == 1..MaxCalls

\* 0xC3 0xA9 is a two-byte character; either byte alone is malformed.
Alphabet == {195, 169}

\* "boom"; U+20AC; U+1F600; an encoded surrogate (malformed); an overlong
\* encoding (malformed); 0xFF (malformed).
Boom == <<98, 111, 111, 109>>
ExtraOutputs ==
    {Boom, <<226, 130, 172>>, <<240, 159, 152, 128>>, <<237, 160, 128>>,
     <<192, 128>>, <<255>>}

Outputs == UNION {[1..k -> Alphabet] : k \in 0..MaxOut} \cup ExtraOutputs

ExitCodes == {0, 1, 2}

\* The status of a child ended by SIGKILL.
Killed == Signalled(9)

\* The environment variables of the calling process.
CallerEnv == {"PATH", "HOME"}

ProofOutputs == {"garbage", "proof"}

\* What the program behind a command may do: the prover's behaviour is not
\* known (any output, any exit code); the two test programs are the
\* scenarios "exits with 0 at once" and "writes boom and exits with 2".
Programs(command) ==
    CASE command = "exit_zero" -> {[out |-> <<>>, code |-> 0]}
      [] command = "boom_exit_two" -> {[out |-> Boom, code |-> 2]}
      [] OTHER -> [out : Outputs, code : ExitCodes]

\* The configurations of two instances with a working directory each.
InstanceConfigs ==
    <<[working_directory |-> "prover_1", command |-> "boom_exit_two"],
      [working_directory |-> "prover_2", command |-> "exit_zero"]>>

\* The directories of the file system.
Dirs == {".", "prover_1", "prover_2"}

\* The environments the calling process may have at the time of a spawn.
CallerEnvs == SUBSET CallerEnv

(***************************************************************************)
(* State                                                                   *)
(***************************************************************************)
VARIABLES
    prover,   \* prover[i]: the i-th StoneProver: working_directory, command
    fut,      \* fut[c]: the future returned by the c-th call of prove
    procs,    \* procs[c]: the child process spawned by the c-th call
    dir,      \* dir[d][f]: the file f of the directory d
    lin,      \* Layout caller: the string handed to from_str
    lv,       \* Layout caller: the variant handed to name
    lparsed,  \* Layout caller: what from_str returned
    lname     \* Layout caller: what name returned ("" before the call)

vars == <<prover, fut, procs, dir, lin, lv, lparsed, lname>>
proveVars == <<prover, fut, procs, dir>>
layoutVars == <<lin, lv, lparsed, lname>>

\* A future that does not exist (yet, or any more).
NoFuture ==
    [pc |-> "unborn", inst |-> 0, self |-> FALSE, request |-> NoRequest,
     child |-> FALSE, stderr |-> FALSE, write |-> "none", spawn |-> "none",
     wait |-> "none", writes |-> 0, spawns |-> 0, status |-> NoStatus,
     buf |-> <<>>, reads |-> 0, eof |-> FALSE, result |-> NoResult]

\* No process.
NoProcess ==
    [state |-> "none", owner |-> 0, program |-> "", current_dir |-> "",
     args |-> <<>>,
     env |-> {}, stderr |-> "none", kill_on_drop |-> FALSE,
     out |-> <<>>, code |-> 0, pos |-> 0, pipe |-> <<>>, status |-> NoStatus]

\* The suspension points of prove, and the states in which the future exists.
Suspended == {"created", "writing", "waiting", "draining"}
InFlight == Suspended \cup {"launch"}
Finished == {"done", "dropped", "panicked"}

\* The receiver of call c, and its working directory.
Self(c) == prover[fut[c].inst]
WorkDir(c) == Self(c).working_directory

\* The future is consumed: it gives back `&mut self` and `request`, and the
\* locals `child` and `stderr` go out of scope.
Release(f) ==
    [f EXCEPT !.self = FALSE, !.request = NoRequest, !.child = FALSE,
              !.stderr = FALSE]

\* Drop of a Child handle that leaves the process alone.
DropChild_detached(p) == p

\* Drop of the tokio Child handle: a child that was not waited on to its end
\* is killed when the handle was built with kill_on_drop(true).
DropChild(p) ==
    IF p.state = "running" /\ p.kill_on_drop
    THEN [p EXCEPT !.state = "killed", !.status = Killed]
    ELSE p

(***************************************************************************)
(* The Input Writer (mod input, not part of the sources at hand): the      *)
(* files it writes, in a fixed order, each holding the request's data.     *)
(***************************************************************************)
WriteOrder ==
    <<PUBLIC_INPUT_FILE, PRIVATE_INPUT_FILE, PROVER_CONFIG_FILE,
      PARAMETER_FILE, TRACE_FILE, MEMORY_FILE>>

\* The directory d after the first k files of request were written.
write_inputs_to_directory(request, d, k) ==
    [f \in Files |->
        IF \E i \in 1..k : WriteOrder[i] = f THEN request.tag ELSE d[f]]

(***************************************************************************)
(* error_message                                                           *)
(***************************************************************************)
\* error_message that cuts the text at the first 'o' (a terminator check).
RECURSIVE UpToO(_)
UpToO(s) ==
    IF s = <<>> \/ Head(s) = 111 THEN <<>> ELSE <<Head(s)>> \o UpToO(Tail(s))

error_message_cut(readOk, buf) ==
    IF ~readOk THEN FailedToReadMsg
    ELSE IF from_utf8(buf).ok THEN UpToO(from_utf8(buf).s)
    ELSE NotValidUtf8Msg

\* error_message that keeps what it has of a stream it could not decode or
\* read to the end (a lossy conversion).
error_message_lossy(readOk, buf) ==
    IF from_utf8(buf).ok THEN from_utf8(buf).s ELSE buf

\* error_message, once read_to_end has returned (readOk) with buf filled.
error_message(readOk, buf) ==
    IF ~readOk THEN FailedToReadMsg
    ELSE IF from_utf8(buf).ok THEN from_utf8(buf).s
    ELSE NotValidUtf8Msg

\* What prove returns after a successful exit; this one parses PROOF_FILE.
proof_result_parsed(proofFile) ==
    IF proofFile = "proof" THEN OkProof ELSE ErrSerde

\* What prove returns after a successful exit: PROOF_FILE is not parsed.
proof_result(proofFile) == OkProof

(***************************************************************************)
(* Initial state: a StoneProver built from the default configuration, an   *)
(* empty working directory, no call made.                                  *)
(***************************************************************************)
InitProver ==
    /\ prover = <<new(DefaultConfig)>>
    /\ fut = [c \in CallIds |-> NoFuture]
    /\ procs = [c \in CallIds |-> NoProcess]
    /\ dir = [d \in Dirs |-> [f \in Files |-> "absent"]]

Init ==
    /\ InitProver
    /\ lin = ""
    /\ lv = "Plain"
    /\ lparsed = NotParsed
    /\ lname = ""

(***************************************************************************)
(* Prove::prove(&mut self, request) as implemented by StoneProver          *)
(***************************************************************************)
\* `&mut self`: whether a live future holds the exclusive borrow; this one
\* is the borrow of a `&self` receiver, which excludes nobody.
SelfBorrowed_shared(i) == FALSE

\* `&mut self`: whether a live future holds the exclusive borrow.
SelfBorrowed(i) == \E c \in CallIds : fut[c].self /\ fut[c].inst = i

\* The call of the async fn: it builds the future, which captures `self`
\* and `request`, and runs nothing of the body.
Call(c, i, r) ==
    /\ fut[c].pc = "unborn"
    /\ \A d \in 1..(c - 1) : fut[d].pc # "unborn"
    /\ \A d \in CallIds : fut[d].inst = i => fut[d].pc \notin Finished
    /\ ~SelfBorrowed(i)
    /\ fut' = [fut EXCEPT ![c] =
                 [NoFuture EXCEPT !.pc = "created", !.inst = i,
                                  !.self = TRUE, !.request = r]]
    /\ UNCHANGED <<prover, procs, dir, layoutVars>>

\* First poll: write_inputs_to_directory(request, ..) is started and awaited.
Poll(c) ==
    /\ fut[c].pc = "created"
    /\ fut' = [fut EXCEPT ![c] =
                 [@ EXCEPT !.pc = "writing", !.writes = @ + 1]]
    /\ UNCHANGED <<prover, procs, dir, layoutVars>>

\* The write phase returns Ok: every input file holds the request's data.
WriteOk(c) ==
    /\ fut[c].pc = "writing"
    /\ dir' = [dir EXCEPT ![WorkDir(c)] =
                 write_inputs_to_directory(fut[c].request, @, Len(WriteOrder))]
    /\ fut' = [fut EXCEPT ![c] = [@ EXCEPT !.pc = "launch", !.write = "Ok"]]
    /\ UNCHANGED <<prover, procs, layoutVars>>

\* The write phase returns Err, which is ignored: prove goes on to spawn.
WriteErr_ignored(c) ==
    /\ fut[c].pc = "writing"
    /\ \E k \in 0..Len(WriteOrder), e \in WriteErrors :
         /\ dir' = [dir EXCEPT ![WorkDir(c)] =
                      write_inputs_to_directory(fut[c].request, @, k)]
         /\ fut' = [fut EXCEPT ![c] =
                      [@ EXCEPT !.pc = "launch", !.write = e.kind]]
    /\ UNCHANGED <<prover, procs, layoutVars>>

\* The write phase returns Err after k files: `?` returns it from prove.
WriteErr(c) ==
    /\ fut[c].pc = "writing"
    /\ \E k \in 0..Len(WriteOrder), e \in WriteErrors :
         /\ dir' = [dir EXCEPT ![WorkDir(c)] =
                      write_inputs_to_directory(fut[c].request, @, k)]
         /\ fut' = [fut EXCEPT ![c] =
                      Release([@ EXCEPT !.pc = "done", !.write = e.kind,
                                        !.result = e])]
    /\ UNCHANGED <<prover, procs, layoutVars>>

\* self.command.spawn() returns Ok, then child.stderr.take().unwrap().
SpawnOk(c) ==
    /\ fut[c].pc = "launch"
    /\ procs[c].state = "none"
    /\ \E prog \in Programs(Self(c).command.program), env \in CallerEnvs :
         LET cmd == Self(c).command
             out == prog.out
             code == prog.code
             p == [state |-> "running",
                   owner |-> fut[c].inst,
                   program |-> cmd.program,
                   current_dir |-> cmd.current_dir,
                   args |-> cmd.args,
                   env |-> IF cmd.env_clear THEN {} ELSE env,
                   stderr |-> cmd.stderr,
                   kill_on_drop |-> cmd.kill_on_drop,
                   out |-> out, code |-> code, pos |-> 0, pipe |-> <<>>,
                   status |-> NoStatus]
         IN  IF cmd.stderr = "piped"
             THEN /\ procs' = [procs EXCEPT ![c] = p]
                  /\ fut' = [fut EXCEPT ![c] =
                               [@ EXCEPT !.pc = "waiting", !.child = TRUE,
                                         !.stderr = TRUE, !.spawn = "Ok",
                                         !.spawns = @ + 1]]
             ELSE /\ procs' = [procs EXCEPT ![c] = DropChild(p)]
                  /\ fut' = [fut EXCEPT ![c] =
                               Release([@ EXCEPT !.pc = "panicked",
                                                 !.spawn = "Ok",
                                                 !.spawns = @ + 1])]
    /\ UNCHANGED <<prover, dir, layoutVars>>

\* A prove that calls spawn() again after a failure (once more at most).
SpawnErr_retry(c) ==
    /\ fut[c].pc = "launch"
    /\ fut[c].spawns < 2
    /\ fut' = [fut EXCEPT ![c] =
                 [@ EXCEPT !.spawn = "Err", !.spawns = @ + 1]]
    /\ UNCHANGED <<prover, procs, dir, layoutVars>>

\* self.command.spawn() returns Err: `?` returns Error::Io.
SpawnErr(c) ==
    /\ fut[c].pc = "launch"
    /\ fut' = [fut EXCEPT ![c] =
                 Release([@ EXCEPT !.pc = "done", !.spawn = "Err",
                                   !.spawns = @ + 1, !.result = ErrIo])]
    /\ UNCHANGED <<prover, procs, dir, layoutVars>>

\* child.wait() returns Ok(status) with status.success(): Ok(Proof {}).
WaitSuccess(c) ==
    /\ fut[c].pc = "waiting"
    /\ procs[c].state = "exited"
    /\ success(procs[c].status)
    /\ fut' = [fut EXCEPT ![c] =
                 Release([@ EXCEPT !.pc = "done", !.wait = "Ok",
                                   !.status = procs[c].status,
                                   !.result = proof_result(
                                       dir[WorkDir(c)][PROOF_FILE])])]
    /\ UNCHANGED <<prover, procs, dir, layoutVars>>

\* child.wait() returns Ok(status) with !status.success(): error_message
\* starts to read the standard error.
WaitFailure(c) ==
    /\ fut[c].pc = "waiting"
    /\ procs[c].state = "exited"
    /\ ~success(procs[c].status)
    /\ fut' = [fut EXCEPT ![c] =
                 [@ EXCEPT !.pc = "draining", !.wait = "Ok",
                           !.status = procs[c].status]]
    /\ UNCHANGED <<prover, procs, dir, layoutVars>>

\* A prove that takes a failed wait for a clean exit.
WaitErr_swallowed(c) ==
    /\ fut[c].pc = "waiting"
    /\ fut' = [fut EXCEPT ![c] =
                 Release([@ EXCEPT !.pc = "done", !.wait = "Err",
                                   !.result = OkProof])]
    /\ procs' = [procs EXCEPT ![c] = DropChild(@)]
    /\ UNCHANGED <<prover, dir, layoutVars>>

\* child.wait() returns Err: `?` returns Error::Io and drops the child.
WaitErr(c) ==
    /\ fut[c].pc = "waiting"
    /\ fut' = [fut EXCEPT ![c] =
                 Release([@ EXCEPT !.pc = "done", !.wait = "Err",
                                   !.result = ErrIo])]
    /\ procs' = [procs EXCEPT ![c] = DropChild(@)]
    /\ UNCHANGED <<prover, dir, layoutVars>>

\* read_to_end: one read of n bytes from the pipe into buf.
Read(c) ==
    /\ fut[c].pc = "draining"
    /\ fut[c].stderr
    /\ \E n \in 1..Len(procs[c].pipe) :
         /\ fut' = [fut EXCEPT ![c] =
                      [@ EXCEPT !.buf = @ \o SubSeq(procs[c].pipe, 1, n),
                                !.reads = @ + 1]]
         /\ procs' = [procs EXCEPT ![c].pipe =
                        SubSeq(@, n + 1, Len(@))]
    /\ UNCHANGED <<prover, dir, layoutVars>>

\* read_to_end that takes an empty read for the end of the stream while
\* bytes are still to come.
ReadEof_early(c) ==
    /\ fut[c].pc = "draining"
    /\ fut[c].stderr
    /\ fut' = [fut EXCEPT ![c] =
                 Release([@ EXCEPT
                    !.pc = "done", !.eof = TRUE, !.reads = @ + 1,
                    !.result = UnexpectedErrorCode(fut[c].status,
                                   error_message(TRUE, fut[c].buf))])]
    /\ UNCHANGED <<prover, procs, dir, layoutVars>>

\* read_to_end reaches the end of the stream (the pipe is empty and its
\* write end closed); error_message decodes, prove returns the error.
ReadEof(c) ==
    /\ fut[c].pc = "draining"
    /\ fut[c].stderr
    /\ procs[c].pipe = <<>>
    /\ procs[c].state # "running"
    /\ fut' = [fut EXCEPT ![c] =
                 Release([@ EXCEPT
                    !.pc = "done", !.eof = TRUE, !.reads = @ + 1,
                    !.result = UnexpectedErrorCode(fut[c].status,
                                   error_message(TRUE, fut[c].buf))])]
    /\ UNCHANGED <<prover, procs, dir, layoutVars>>

\* read_to_end returns Err; error_message returns its sentinel.
ReadErr(c) ==
    /\ fut[c].pc = "draining"
    /\ fut[c].stderr
    /\ fut' = [fut EXCEPT ![c] =
                 Release([@ EXCEPT
                    !.pc = "done", !.reads = @ + 1,
                    !.result = UnexpectedErrorCode(fut[c].status,
                                   error_message(FALSE, fut[c].buf))])]
    /\ UNCHANGED <<prover, procs, dir, layoutVars>>

\* The caller drops the future at a suspension point.
Drop(c) ==
    /\ fut[c].pc \in Suspended
    /\ \E k \in IF fut[c].pc = "writing" THEN 0..Len(WriteOrder) ELSE {0} :
         dir' = [dir EXCEPT ![WorkDir(c)] =
                   write_inputs_to_directory(fut[c].request, @, k)]
    /\ fut' = [fut EXCEPT ![c] = Release([@ EXCEPT !.pc = "dropped"])]
    /\ procs' = [procs EXCEPT ![c] = IF fut[c].child THEN DropChild(@) ELSE @]
    /\ UNCHANGED <<prover, layoutVars>>

\* The caller is done with the outcome of a call; a process that has ended
\* leaves the process table.
Discard(c) ==
    /\ fut[c].pc \in Finished
    /\ fut' = [fut EXCEPT ![c] = [NoFuture EXCEPT !.pc = "gone"]]
    /\ procs' = [procs EXCEPT ![c] =
                   IF @.state \in {"running", "none"} THEN @
                   ELSE [NoProcess EXCEPT !.state = "reaped"]]
    /\ UNCHANGED <<prover, dir, layoutVars>>

(***************************************************************************)
(* The child process                                                       *)
(***************************************************************************)
\* The child writes the next byte of its output to standard error; it
\* blocks while the pipe is full.
ChildWrite(c) ==
    /\ procs[c].state = "running"
    /\ procs[c].pos < Len(procs[c].out)
    /\ Len(procs[c].pipe) < PipeCap
    /\ procs' = [procs EXCEPT ![c] =
                   [@ EXCEPT !.pipe = Append(@, procs[c].out[procs[c].pos + 1]),
                             !.pos = @ + 1]]
    /\ UNCHANGED <<prover, fut, dir, layoutVars>>

\* The child has written all its output and exits with its code; a program
\* that exits with 0 may have written the proof file.
ChildExit(c) ==
    /\ procs[c].state = "running"
    /\ procs[c].pos = Len(procs[c].out)
    /\ procs' = [procs EXCEPT ![c] =
                   [@ EXCEPT !.state = "exited",
                             !.status = ExitCode(procs[c].code)]]
    /\ \E proof \in ProofOutputs \cup {dir[procs[c].current_dir][PROOF_FILE]} :
         dir' = IF procs[c].code = 0
                THEN [dir EXCEPT ![procs[c].current_dir][PROOF_FILE] = proof]
                ELSE dir
    /\ UNCHANGED <<prover, fut, layoutVars>>

\* The child is killed from outside (not by its owner) while it runs.
ChildSignalled(c) ==
    /\ procs[c].state = "running"
    /\ procs' = [procs EXCEPT ![c] =
                   [@ EXCEPT !.state = "exited", !.status = Killed]]
    /\ UNCHANGED <<prover, fut, dir, layoutVars>>

Next ==
    \E c \in CallIds :
        \/ \E i \in DOMAIN prover, r \in Requests : Call(c, i, r)
        \/ Poll(c)
        \/ WriteOk(c)
        \/ WriteErr(c)
        \/ SpawnOk(c)
        \/ SpawnErr(c)
        \/ WaitSuccess(c)
        \/ WaitFailure(c)
        \/ WaitErr(c)
        \/ Read(c)
        \/ ReadEof(c)
        \/ ReadErr(c)
        \/ Drop(c)
        \/ Discard(c)
        \/ ChildWrite(c)
        \/ ChildExit(c)
        \/ ChildSignalled(c)

Spec == Init /\ [][Next]_vars

(***************************************************************************)
(* Two instances, each with a working directory of its own, under any      *)
(* environment of the caller                                               *)
(***************************************************************************)
InitInstances ==
    /\ prover = [i \in DOMAIN InstanceConfigs |-> new(InstanceConfigs[i])]
    /\ fut = [c \in CallIds |-> NoFuture]
    /\ procs = [c \in CallIds |-> NoProcess]
    /\ dir = [d \in Dirs |-> [f \in Files |-> "absent"]]
    /\ lin = ""
    /\ lv = "Plain"
    /\ lparsed = NotParsed
    /\ lname = ""

SpecInstances == InitInstances /\ [][Next]_vars

(***************************************************************************)
(* A caller of Layout::name and Layout::from_str                           *)
(***************************************************************************)
\* The strings handed to from_str: the names of the table, the empty
\* string, names in another case, names with surrounding white space,
\* truncated, extended and misspelt names.
LayoutInputs ==
    {name(v) : v \in Layout}
    \cup {" " \o name(v) : v \in Layout}
    \cup {name(v) \o " " : v \in Layout}
    \cup {name(v) \o "\n" : v \in Layout}
    \cup {"", " ", "Plain", "PLAIN", "Small", "DEX", "Recursive", "Starknet",
          "RecursiveLargeOutput", "Recursive_Large_Output", "AllCairo",
          "All_Cairo", "ALL_SOLIDITY", "StarknetWithKeccak",
          "STARKNET_WITH_KECCAK", "plai", "plain2", "recursive_large",
          "recursive_large_outpu", "recursive-large-output", "all", "all_",
          "allcairo", "all cairo", "starknet_with", "starknet_with_kecca",
          "starknet_with_keccak_", "dynamic", "layout"}

InitLayout ==
    /\ InitProver
    /\ lin \in LayoutInputs
    /\ lv \in Layout
    /\ lparsed = NotParsed
    /\ lname = ""

\* name(lv) is called.
CallName ==
    /\ lname' = name(lv)
    /\ UNCHANGED <<proveVars, lin, lv, lparsed>>

\* lin.parse::<Layout>() is called.
CallFromStr ==
    /\ lparsed' = from_str(lin)
    /\ UNCHANGED <<proveVars, lin, lv, lname>>

\* The name obtained becomes the next string to parse.
FeedName ==
    /\ lname # ""
    /\ lin' = lname
    /\ lparsed' = NotParsed
    /\ UNCHANGED <<proveVars, lv, lname>>

\* The variant obtained becomes the next variant to name.
UseParsed ==
    /\ lparsed.ok
    /\ lv' = lparsed.val
    /\ lname' = ""
    /\ UNCHANGED <<proveVars, lin, lparsed>>

NextLayout == CallName \/ CallFromStr \/ FeedName \/ UseParsed

SpecLayout == InitLayout /\ [][NextLayout]_vars

(***************************************************************************)
(* Properties                                                              *)
(***************************************************************************)
\* The bytes the child of call c has written to its standard error.
Written(c) == SubSeq(procs[c].out, 1, procs[c].pos)

\* prove has returned from call c (the future ran to its end).
Returned(c) == fut[c].pc = "done"

\* The child of call c ended by itself or by a signal from outside, with a
\* status that is not a success.
ExitedFailing(c) ==
    procs[c].state = "exited" /\ ~success(procs[c].status)

\* Every input file of the directory d holds the data of the request r.
InputsWritten(d, r) ==
    \A i \in 1..Len(WriteOrder) : dir[d][WriteOrder[i]] = r.tag

\* C1, as stated: whenever prove has returned and the child ended with a
\* non-success status s after writing valid UTF-8 bytes b, the result is
\* UnexpectedErrorCode(s, b decoded).
C1_Original ==
    \A c \in CallIds :
        (Returned(c) /\ ExitedFailing(c) /\ Utf8Valid(Written(c))) =>
            fut[c].result =
                UnexpectedErrorCode(procs[c].status, Utf8Decode(Written(c)))

\* C1, amended: whenever prove has returned, child.wait() has reported the
\* non-success status s of the child and read_to_end has read the standard
\* error to its end without error, and the bytes b the child wrote are valid
\* UTF-8, the result is UnexpectedErrorCode(s, m) where m is b decoded:
\* the bytes of m are exactly b.
C1_ExactStatusAndMessage ==
    \A c \in CallIds :
        (/\ Returned(c)
         /\ ExitedFailing(c)
         /\ fut[c].status # NoStatus
         /\ fut[c].eof
         /\ Utf8Valid(Written(c))) =>
            /\ fut[c].result.kind = "UnexpectedErrorCode"
            /\ fut[c].result.status = procs[c].status
            /\ fut[c].result.msg = Utf8Decode(Written(c))
            /\ as_bytes(fut[c].result.msg) = Written(c)

\* A program wrote "boom" and exited with 2: prove returned (2, "boom").
C1_Witness ==
    \E c \in CallIds :
        /\ Returned(c)
        /\ Written(c) = Boom
        /\ procs[c].status = ExitCode(2)
        /\ fut[c].eof
        /\ fut[c].result = UnexpectedErrorCode(ExitCode(2), <<98, 111, 111, 109>>)

\* C2, as stated: whenever prove has returned after a successful write
\* phase and spawn and the child exited with status 0, the result is
\* Ok(Proof {}).
C2_Original ==
    \A c \in CallIds :
        (Returned(c) /\ procs[c].state = "exited" /\ success(procs[c].status))
            => fut[c].result = OkProof

\* C2, amended: whenever prove has returned and child.wait() has reported
\* the child's exit with status 0, the result is Ok(Proof {}), whatever the
\* child wrote to standard error and whatever the proof file holds; no read
\* of the standard error took place: all the child wrote is still in the
\* pipe and the buffer is empty.
C2_SuccessIgnoresStderrAndProof ==
    \A c \in CallIds :
        (Returned(c) /\ fut[c].status # NoStatus /\ success(fut[c].status)) =>
            /\ fut[c].result = OkProof
            /\ fut[c].write = "Ok"
            /\ procs[c].status = ExitCode(0)
            /\ fut[c].reads = 0
            /\ fut[c].buf = <<>>
            /\ procs[c].pipe = Written(c)

\* prove returned Ok(Proof {}) although the child wrote malformed bytes to
\* its standard error and left garbage in the proof file.
C2_Witness ==
    \E c \in CallIds :
        /\ Returned(c)
        /\ fut[c].result = OkProof
        /\ procs[c].pipe = <<255>>
        /\ dir["."][PROOF_FILE] = "garbage"

\* C3: in no state is the future of a call gone (dropped, or run to its
\* end) while the child it spawned is still running.
C3_NoOrphan ==
    \A c \in CallIds :
        fut[c].pc \notin InFlight => procs[c].state # "running"

\* A future was dropped while it waited for its child, which was killed
\* before it had written all its output.
C3_Witness ==
    \E c \in CallIds :
        /\ fut[c].pc = "dropped"
        /\ procs[c].state = "killed"
        /\ procs[c].pos < Len(procs[c].out)

\* C4, as stated: a future that exists holds no reference to the request.
C4_NoRequestReference ==
    \A c \in CallIds :
        fut[c].pc \in InFlight => fut[c].request = NoRequest

\* C5, as stated: the child is spawned only after the write phase has
\* written every input file of the request; the outcome is classified only
\* once the child has ended, with the status it ended with; an
\* UnexpectedErrorCode is built only after the standard error was read to
\* the end of the stream.
C5_Original ==
    \A c \in CallIds :
        /\ fut[c].child => (fut[c].write = "Ok" /\ InputsWritten(WorkDir(c), fut[c].request))
        /\ fut[c].status # NoStatus =>
             (procs[c].state = "exited" /\ fut[c].status = procs[c].status)
        /\ fut[c].result.kind = "UnexpectedErrorCode" =>
             (fut[c].eof /\ procs[c].pipe = <<>> /\ fut[c].buf = Written(c))

\* C5, amended: as stated, except that an UnexpectedErrorCode is built
\* after the standard error was read to the end of the stream or after a
\* read of it has failed (and then the message is the read-failure text).
C5_PhaseOrder ==
    \A c \in CallIds :
        /\ fut[c].child => (fut[c].write = "Ok" /\ InputsWritten(WorkDir(c), fut[c].request))
        /\ fut[c].status # NoStatus =>
             (procs[c].state = "exited" /\ fut[c].status = procs[c].status)
        /\ fut[c].result.kind = "UnexpectedErrorCode" =>
             /\ fut[c].status # NoStatus
             /\ fut[c].reads > 0
             /\ \/ fut[c].eof /\ procs[c].pipe = <<>> /\ fut[c].buf = Written(c)
                \/ ~fut[c].eof /\ fut[c].result.msg = FailedToReadMsg

\* An error was built after the whole output, longer than one read, was
\* read in several reads.
C5_Witness ==
    \E c \in CallIds :
        /\ fut[c].result.kind = "UnexpectedErrorCode"
        /\ fut[c].eof
        /\ fut[c].reads > 2
        /\ Len(fut[c].buf) = PipeCap

\* C6: a call whose write phase failed has returned that failure and has
\* spawned no process; a process exists only for a call whose write phase
\* succeeded.
C6_WriteFailureStopsBeforeSpawn ==
    \A c \in CallIds :
        /\ fut[c].write \in {"Io", "Serde"} =>
             /\ Returned(c)
             /\ fut[c].result.kind = fut[c].write
             /\ procs[c].state = "none"
             /\ ~fut[c].child
        /\ procs[c].state \in {"running", "exited", "killed"} =>
             fut[c].write = "Ok"

\* A write phase failed with a Serde error after some of the files were
\* written, and prove returned it.
C6_Witness ==
    \E c \in CallIds :
        /\ Returned(c)
        /\ fut[c].write = "Serde"
        /\ fut[c].result = ErrSerde
        /\ dir["."][PUBLIC_INPUT_FILE] # "absent"
        /\ dir["."][MEMORY_FILE] = "absent"
        /\ procs[c].state = "none"

NineNames ==
    {"plain", "small", "dex", "recursive", "starknet",
     "recursive_large_output", "all_cairo", "all_solidity",
     "starknet_with_keccak"}

\* C9: parsing the name of a variant gives that variant; the name of a
\* parsed variant is the string that was parsed; the names of the nine
\* variants are nine distinct strings.
C9_NameFromStrInverse ==
    /\ (lname # "" /\ lin = lname /\ lparsed # NotParsed) =>
           lparsed = LayoutOk(lv)
    /\ lparsed.ok => (lparsed.val \in Layout /\ name(lparsed.val) = lin)
    /\ lname # "" => \A w \in Layout : name(w) = lname => w = lv
    /\ Cardinality({name(v) : v \in Layout}) = 9

\* The name of AllSolidity was parsed back to AllSolidity.
C9_Witness ==
    /\ lv = "AllSolidity"
    /\ lname = "all_solidity"
    /\ lin = lname
    /\ lparsed = LayoutOk("AllSolidity")

\* C10: from_str of a string that is not one of the nine names is Err(()).
C10_UnknownNameFails ==
    (lparsed # NotParsed /\ lin \notin NineNames) => lparsed = LayoutErr

\* A name in another case was parsed and refused.
C10_Witness ==
    /\ lin = "Plain"
    /\ lparsed = LayoutErr

\* A process that was launched (and has not left the process table).
Launched(c) == procs[c].state \in {"running", "exited", "killed"}

\* C11: every process launched by an instance has an empty set of
\* environment variables, whatever the environment of the caller and
\* whatever calls came before on the instance.
C11_EmptyEnvironment ==
    \A c \in CallIds : Launched(c) => procs[c].env = {}

\* A second call on an instance launched its process, from a caller that
\* may have PATH and HOME set, after the first call on it was over.
C11_Witness ==
    \E c, d \in CallIds :
        /\ c < d
        /\ {"PATH", "HOME"} \in CallerEnvs
        /\ fut[c].pc = "gone"
        /\ fut[d].inst = 1
        /\ procs[d].state = "running"
        /\ procs[d].env = {}

\* C12: a call whose spawn failed has returned Error::Io, has no process,
\* did not wait, classified no status and read nothing; a call whose wait
\* failed has returned Error::Io.
C12_SpawnOrWaitFailureIsIo ==
    \A c \in CallIds :
        /\ fut[c].spawn = "Err" =>
             /\ Returned(c)
             /\ fut[c].result = ErrIo
             /\ procs[c].state = "none"
             /\ fut[c].wait = "none"
             /\ fut[c].status = NoStatus
             /\ fut[c].reads = 0
             /\ fut[c].buf = <<>>
        /\ fut[c].wait = "Err" =>
             /\ Returned(c)
             /\ fut[c].result = ErrIo
             /\ fut[c].status = NoStatus
             /\ fut[c].reads = 0

\* The wait failed after the child had written to its standard error, and
\* prove returned Error::Io without a read.
C12_Witness ==
    \E c \in CallIds :
        /\ Returned(c)
        /\ fut[c].wait = "Err"
        /\ fut[c].result = ErrIo
        /\ procs[c].pos > 0
        /\ fut[c].reads = 0

\* C13: when prove has returned, the child the call spawned, if any, is not
\* running: after a wait that succeeded it has exited, after a wait that
\* failed it has exited or was killed by the release of its handle, and
\* after a failed write phase or spawn there is none.
C13_NoChildRunningOnReturn ==
    \A c \in CallIds :
        Returned(c) =>
            /\ procs[c].state \in {"none", "exited", "killed"}
            /\ fut[c].wait = "Ok" => procs[c].state = "exited"
            /\ fut[c].wait = "Err" => procs[c].state \in {"exited", "killed"}
            /\ fut[c].spawn # "Ok" => procs[c].state = "none"

\* The wait failed while the child was running with output still to
\* write: prove returned and the child was killed.
C13_Witness ==
    \E c \in CallIds :
        /\ Returned(c)
        /\ fut[c].wait = "Err"
        /\ procs[c].state = "killed"
        /\ procs[c].status = Killed
        /\ procs[c].pos < Len(procs[c].out)

\* C14: a call enters the write phase at most once and calls spawn at most
\* once, whatever the outcome of the write phase, the spawn, the wait and
\* the child.
C14_NoRetry ==
    \A c \in CallIds :
        /\ fut[c].writes <= 1
        /\ fut[c].spawns <= 1
        /\ fut[c].spawns = 1 => fut[c].writes = 1
        /\ Launched(c) => fut[c].pc \in {"gone", "unborn"} \/ fut[c].spawns = 1

\* A spawn failed: prove returned after one write phase and one spawn.
C14_Witness ==
    \E c \in CallIds :
        /\ Returned(c)
        /\ fut[c].spawn = "Err"
        /\ fut[c].writes = 1
        /\ fut[c].spawns = 1

\* C15: the unwrap of the standard-error handle never panics: a process
\* that was launched has a piped standard error, and the future holds the
\* handle while it waits for the child and while it reads.
C15_StderrHandlePresent ==
    \A c \in CallIds :
        /\ fut[c].pc # "panicked"
        /\ Launched(c) => procs[c].stderr = "piped"
        /\ fut[c].pc \in {"waiting", "draining"} => fut[c].stderr

\* The future reads the piped standard error of its child through the
\* handle it took.
C15_Witness ==
    \E c \in CallIds :
        /\ fut[c].pc = "draining"
        /\ fut[c].stderr
        /\ procs[c].stderr = "piped"
        /\ fut[c].reads > 0

\* The argument list of every launch.
LaunchArgs ==
    <<"--out_file", "proof_file.json",
      "--private_input_file", "private_input_file.json",
      "--public_input_file", "public_input_file.json",
      "--prover-config-file", "prover_config.json",
      "--parameter_file", "parameter_file.json">>

\* C16: in every state the template of each instance is the one built from
\* its configuration, and every process launched has the configured
\* command as its program, the configured directory as its working
\* directory and the ten arguments in their order; the names of the trace
\* file and of the memory file are no arguments.
C16_LaunchTemplateFixed ==
    /\ \A i \in DOMAIN prover :
          /\ prover[i].working_directory = InstanceConfigs[i].working_directory
          /\ prover[i].command.program = InstanceConfigs[i].command
          /\ prover[i].command.current_dir =
                InstanceConfigs[i].working_directory
          /\ prover[i].command.args = LaunchArgs
    /\ \A c \in CallIds :
          Launched(c) =>
              /\ procs[c].program = InstanceConfigs[procs[c].owner].command
              /\ procs[c].current_dir =
                    InstanceConfigs[procs[c].owner].working_directory
              /\ procs[c].args = LaunchArgs
              /\ \A k \in 1..Len(procs[c].args) :
                    procs[c].args[k] \notin {"trace_file.bin", "memory_file.bin"}

\* The second call on the second instance launched its process, after a
\* first call on the same instance had run to its end.
C16_Witness ==
    \E c, d \in CallIds :
        /\ c < d
        /\ fut[c].pc = "gone"
        /\ procs[c].state = "reaped"
        /\ procs[d].state = "running"
        /\ procs[d].owner = 2
        /\ procs[d].program = "exit_zero"
        /\ procs[d].current_dir = "prover_2"
        /\ procs[d].args = LaunchArgs

\* The instance a call and its process belong to (0: none yet).
Owner(c) ==
    IF fut[c].inst # 0 THEN fut[c].inst
    ELSE IF procs[c].owner # 0 THEN procs[c].owner
    ELSE fut'[c].inst

\* The results prove can return on the instance i when the instance runs
\* alone: a failure of the write phase, of the spawn or of the wait,
\* success if its program exits with 0, and otherwise the status of its
\* program (its exit code, or a kill from outside that cut its output)
\* with the text of what it wrote or the text of a failed read.
AloneResults(i) ==
    LET progs == Programs(InstanceConfigs[i].command)
        ends == {[status |-> ExitCode(g.code), out |-> g.out] : g \in progs}
                \cup UNION {{[status |-> Killed, out |-> SubSeq(g.out, 1, n)] :
                                n \in 0..Len(g.out)} : g \in progs}
    IN  {ErrIo, ErrSerde}
        \cup {OkProof : e \in {x \in ends : success(x.status)}}
        \cup {UnexpectedErrorCode(e.status, error_message(ok, e.out)) :
                 e \in {x \in ends : ~success(x.status)}, ok \in BOOLEAN}

\* Each call of an instance works in the directory of its instance, on a
\* process of its instance, and returns a result of its instance alone.
C17_OwnStateOnly ==
    /\ \A f \in Files : dir["."][f] = "absent"
    /\ \A c \in CallIds :
          /\ fut[c].child =>
                /\ procs[c].owner = fut[c].inst
                /\ InputsWritten(WorkDir(c), fut[c].request)
          /\ Launched(c) =>
                /\ procs[c].current_dir =
                      InstanceConfigs[procs[c].owner].working_directory
                /\ procs[c].program = InstanceConfigs[procs[c].owner].command
                /\ [out |-> procs[c].out, code |-> procs[c].code]
                      \in Programs(InstanceConfigs[procs[c].owner].command)
          /\ Returned(c) => fut[c].result \in AloneResults(fut[c].inst)
          /\ (Returned(c) /\ fut[c].eof) =>
                fut[c].result.msg = error_message(TRUE, Written(c))

\* A step of a call or of its process changes nothing of another call,
\* of another process, or of the directory of another instance, and
\* changes no instance.
C17_OwnStepOnly ==
    \A c \in CallIds :
        (fut'[c] # fut[c] \/ procs'[c] # procs[c]) =>
            /\ prover' = prover
            /\ \A d \in CallIds \ {c} : fut'[d] = fut[d] /\ procs'[d] = procs[d]
            /\ \A j \in DOMAIN prover \ {Owner(c)} :
                  dir'[prover[j].working_directory] =
                      dir[prover[j].working_directory]

\* C17: two instances with distinct working directories share no state:
\* in every interleaving of their calls each call sees only the files, the
\* process and the result of its own instance, and each step touches only
\* the state of the instance that takes it.
C17_NoSharedState == []C17_OwnStateOnly /\ [][C17_OwnStepOnly]_vars

\* The calls of the two instances ran at the same time on different
\* requests; the first returned the failure of its own program while the
\* child of the second was running, each directory holding the inputs of
\* its own request.
C17_Witness ==
    \E c, d \in CallIds :
        /\ fut[c].inst = 1
        /\ fut[d].inst = 2
        /\ fut[c].request # fut[d].request
        /\ fut[c].pc = "draining"
        /\ fut[c].buf = Boom
        /\ fut[d].pc = "waiting"
        /\ procs[d].state = "running"
        /\ InputsWritten("prover_1", fut[c].request)
        /\ InputsWritten("prover_2", fut[d].request)

\* C18, as stated: in no state is prove blocked in child.wait() while its
\* running child is blocked in a write to the full pipe of its standard
\* error.
C18_NoMutualBlock ==
    \A c \in CallIds :
        ~(/\ fut[c].pc = "waiting"
          /\ procs[c].state = "running"
          /\ procs[c].pos < Len(procs[c].out)
          /\ Len(procs[c].pipe) = PipeCap)

====
